---- MODULE Spec2Model ----
(***************************************************************************)
(* A model of the pathtracer: the bounding volume hierarchy (src/bvh.rs),  *)
(* the primitives it is built over (src/primitives), the integrator and    *)
(* the parallel renderers (src/main.rs, src/scene.rs).                     *)
(*                                                                         *)
(* Numbers.  The program computes in f32.  The model computes exactly, in  *)
(* integers, on inputs for which every value the code computes is an       *)
(* integer: coordinates on the even grid, radii in 0..2, rays along an     *)
(* axis with a unit direction.  The IEEE values the code relies on (the    *)
(* infinities of 1/0 in Ray::new, the NaN of 0*inf and 0/0) are kept as    *)
(* values of their own (Fin, PInf, NInf, NaN below).                       *)
(***************************************************************************)
EXTENDS Integers, Sequences, FiniteSets, TLC

(***************************************************************************)
(* Bounds of the model.                                                    *)
(***************************************************************************)
\* Longest scene whose instances are drawn freely from InstanceSet.
MaxInstances == 3
\* Scenes longer than the split threshold have 65..MaxBig instances.
MaxBig == 65
\* The largest depth limit the integrator is run with.
MaxBounces == 3
\* The image rendered is Width x Height pixels.
Width == 2
Height == 2
\* A pixel's samples trace 1 ray at least, MaxRays at most.
MaxRays == 2
\* Corners of the boxes AABB::union and AABB::max_extent are applied to.
MaxCoord == 1
\* Probabilities and uniform draws are counted in steps of 1 / ProbSteps.
ProbSteps == 2

(***************************************************************************)
(* Program constants.                                                      *)
(***************************************************************************)
\* bvh.rs:45  let split_threshold = 64;
split_threshold == 64
\* bvh.rs:118  let mut buckets = [SAHBucket::default(); 12];
NumBuckets == 12
\* main.rs:87  bvh.intersection(ray, 0.0001, 10_000_000.0): every t of the
\* model is an integer, so 0.0001 < t is 0 < t.
COLOR_CHANNELS == 3
T_MIN == 0
T_MAX == 10000000

(***************************************************************************)
(* glam::Vec3, as a triple.                                                *)
(***************************************************************************)
vec3(x, y, z) == <<x, y, z>>
VZero == vec3(0, 0, 0)
VAdd(a, b) == vec3(a[1] + b[1], a[2] + b[2], a[3] + b[3])
VSub(a, b) == vec3(a[1] - b[1], a[2] - b[2], a[3] - b[3])
VScale(k, a) == vec3(k * a[1], k * a[2], k * a[3])
VDot(a, b) == a[1] * b[1] + a[2] * b[2] + a[3] * b[3]
\* Exact on the model's inputs (every component a multiple of k).
VDiv(a, k) == vec3(a[1] \div k, a[2] \div k, a[3] \div k)

Min2(a, b) == IF a <= b THEN a ELSE b
Max2(a, b) == IF a >= b THEN a ELSE b

\* A u32 as its two 16-bit halves (2^32 is beyond the checker's integers).
U16 == 65536
U32Of(n) == [hi |-> (n \div U16) % U16, lo |-> n % U16]

\* Wrapping addition of u32: AtomicU32::fetch_add, and the sum of u32 in a
\* release build.
AddU32(a, b) ==
    LET lo == a.lo + b.lo
    IN  [hi |-> (a.hi + b.hi + lo \div U16) % U16, lo |-> lo % U16]

(***************************************************************************)
(* f32 values with the IEEE specials.                                      *)
(***************************************************************************)
Fin(n) == [k |-> "fin", v |-> n]
PInf == [k |-> "inf", v |-> 1]
NInf == [k |-> "inf", v |-> -1]
NaN == [k |-> "nan", v |-> 0]
IsNaN(a) == a.k = "nan"

\* a < b in IEEE: false when either is NaN.
FLt(a, b) ==
    IF IsNaN(a) \/ IsNaN(b) THEN FALSE
    ELSE IF a.k = "fin" /\ b.k = "fin" THEN a.v < b.v
    ELSE IF a.k = "inf" /\ b.k = "inf" THEN a.v < b.v
    ELSE IF a.k = "inf" THEN a.v < 0
    ELSE b.v > 0

\* a >= b in IEEE: false when either is NaN.
FGe(a, b) == ~IsNaN(a) /\ ~IsNaN(b) /\ ~FLt(a, b)

\* f32::min and f32::max: a NaN argument is ignored.
FMin(a, b) == IF IsNaN(a) THEN b ELSE IF IsNaN(b) THEN a ELSE IF FLt(b, a) THEN b ELSE a
FMax(a, b) == IF IsNaN(a) THEN b ELSE IF IsNaN(b) THEN a ELSE IF FLt(a, b) THEN b ELSE a

\* The product of a finite n and an f32: n * (+-inf) is +-inf, 0 * inf is NaN.
FMulInt(n, a) ==
    IF IsNaN(a) THEN NaN
    ELSE IF a.k = "fin" THEN Fin(n * a.v)
    ELSE IF n = 0 THEN NaN
    ELSE IF n > 0 THEN a
    ELSE [k |-> "inf", v |-> -a.v]

\* 1.0 / d for a direction component d in {-1, 0, 1}: 1.0 / 0.0 is +inf.
FRecip(d) == IF d = 0 THEN PInf ELSE Fin(d)

(***************************************************************************)
(* Ray (ray.rs, main.rs).                                                  *)
(***************************************************************************)
RayNew(origin, direction) ==
    [origin |-> origin,
     direction |-> direction,
     inv_direction |-> <<FRecip(direction[1]), FRecip(direction[2]), FRecip(direction[3])>>]

point_at_parameter(ray, t) == VAdd(ray.origin, VScale(t, ray.direction))

(***************************************************************************)
(* AABB (primitives/aabb.rs).                                              *)
(***************************************************************************)
AABBNew(min, max) == [min |-> min, max |-> max]

\* #[derive(Default)]: both corners at the origin.
AABBDefault == AABBNew(VZero, VZero)

\* union with the upper corner taken as the lower one is: by minimum.
AABBUnionByMin(self, other) ==
    AABBNew(vec3(Min2(self.min[1], other.min[1]),
                 Min2(self.min[2], other.min[2]),
                 Min2(self.min[3], other.min[3])),
            vec3(Min2(self.max[1], other.max[1]),
                 Min2(self.max[2], other.max[2]),
                 Min2(self.max[3], other.max[3])))

AABBUnion(self, other) ==
    AABBNew(vec3(Min2(self.min[1], other.min[1]),
                 Min2(self.min[2], other.min[2]),
                 Min2(self.min[3], other.min[3])),
            vec3(Max2(self.max[1], other.max[1]),
                 Max2(self.max[2], other.max[2]),
                 Max2(self.max[3], other.max[3])))

point_union(self, other) ==
    AABBNew(vec3(Min2(self.min[1], other[1]),
                 Min2(self.min[2], other[2]),
                 Min2(self.min[3], other[3])),
            vec3(Max2(self.max[1], other[1]),
                 Max2(self.max[2], other[2]),
                 Max2(self.max[3], other[3])))

\* Axis::X, Axis::Y, Axis::Z as the component's index.
AxisX == 1
AxisY == 2
AxisZ == 3

max_extent(self) ==
    LET extent == VSub(self.max, self.min)
    IN  IF extent[1] > extent[2] /\ extent[1] > extent[3] THEN AxisX
        ELSE IF extent[2] > extent[3] THEN AxisY
        ELSE AxisZ

surface_area(self) ==
    LET d == VSub(self.max, self.min)
    IN  2 * (d[1] * d[2] + d[1] * d[3] + d[2] * d[3])

\* The slab test; t_min and t_max are not read.
AABBHasIntersection(self, ray) ==
    LET t1 == [i \in 1..3 |-> FMulInt(self.min[i] - ray.origin[i], ray.inv_direction[i])]
        t2 == [i \in 1..3 |-> FMulInt(self.max[i] - ray.origin[i], ray.inv_direction[i])]
        tminX == FMin(t1[1], t2[1])
        tmaxX == FMax(t2[1], t1[1])
        tminY == FMax(tminX, FMin(t1[2], t2[2]))
        tmaxY == FMin(tmaxX, FMax(t1[2], t2[2]))
        tminZ == FMax(tminY, FMin(t1[3], t2[3]))
        tmaxZ == FMin(tmaxY, FMax(t1[3], t2[3]))
    IN  FGe(tmaxZ, FMax(tminZ, Fin(0)))

(***************************************************************************)
(* Sphere (primitives/sphere.rs).                                          *)
(***************************************************************************)
NoHit == [some |-> FALSE]
SomeHit(t, point, normal, material) ==
    [some |-> TRUE, t |-> t, point |-> point, normal |-> normal, material |-> material]

\* f32::sqrt, exact on the model's inputs (n is a perfect square there).
Sqrt(n) == CHOOSE s \in 0..n : s * s <= n /\ (s + 1) * (s + 1) > n

SphereBounds(sphere) ==
    AABBNew(VSub(sphere.center, vec3(sphere.radius, sphere.radius, sphere.radius)),
            VAdd(sphere.center, vec3(sphere.radius, sphere.radius, sphere.radius)))

\* Sphere::intersection without its test t < t_max.
SphereIntersectionNoUpper(sphere, ray, t_min, t_max) ==
    LET oc == VSub(ray.origin, sphere.center)
        a == VDot(ray.direction, ray.direction)
        b == VDot(oc, ray.direction)
        c == VDot(oc, oc) - sphere.radius * sphere.radius
        discriminant == b * b - a * c
    IN  IF discriminant > 0
        THEN LET t_1 == (-b - Sqrt(b * b - a * c)) \div a
                 t_2 == (-b + Sqrt(b * b - a * c)) \div a
                 HitAt(t) ==
                     LET point == point_at_parameter(ray, t)
                     IN  SomeHit(t, point, VDiv(VSub(point, sphere.center), sphere.radius), "None")
             IN  IF t_min < t_1 THEN HitAt(t_1)
                 ELSE IF t_min < t_2 THEN HitAt(t_2)
                 ELSE NoHit
        ELSE NoHit

SphereIntersection(sphere, ray, t_min, t_max) ==
    LET oc == VSub(ray.origin, sphere.center)
        a == VDot(ray.direction, ray.direction)
        b == VDot(oc, ray.direction)
        c == VDot(oc, oc) - sphere.radius * sphere.radius
        discriminant == b * b - a * c
    IN  IF discriminant > 0
        THEN LET t_1 == (-b - Sqrt(b * b - a * c)) \div a
                 t_2 == (-b + Sqrt(b * b - a * c)) \div a
                 HitAt(t) ==
                     LET point == point_at_parameter(ray, t)
                     IN  SomeHit(t, point, VDiv(VSub(point, sphere.center), sphere.radius), "None")
             IN  IF t_min < t_1 /\ t_1 < t_max THEN HitAt(t_1)
                 ELSE IF t_min < t_2 /\ t_2 < t_max THEN HitAt(t_2)
                 ELSE NoHit
        ELSE NoHit

SphereHasIntersection(sphere, ray) ==
    LET oc == VSub(ray.origin, sphere.center)
        a == VDot(ray.direction, ray.direction)
        b == VDot(oc, ray.direction)
        c == VDot(oc, oc) - sphere.radius * sphere.radius
        discriminant == b * b - a * c
    IN  discriminant > 0

(***************************************************************************)
(* Instance (primitives/instance.rs): a shared primitive, a material and a *)
(* transform, of which only the translation is used.                       *)
(***************************************************************************)
InstanceReciver(primitive, material, translation) ==
    [primitive |-> primitive, material |-> material, translation |-> translation]

InstanceIntersection(self, ray, t_min, t_max) ==
    LET local == RayNew(VSub(ray.origin, self.translation), ray.direction)
        hit == SphereIntersection(self.primitive, local, t_min, t_max)
    IN  IF hit.some THEN [hit EXCEPT !.material = self.material] ELSE hit

\* The ray is handed to the primitive as it is: the transform is not read.
InstanceHasIntersection(self, ray) == SphereHasIntersection(self.primitive, ray)

\* The primitive's bounds: the transform is not read.
InstanceBounds(self) == SphereBounds(self.primitive)

(***************************************************************************)
(* The BVH builder (bvh.rs).                                               *)
(***************************************************************************)
\* The closure of BVH::new that precomputes a GeometryInfo; index counts from 0.
GeometryInfo(geom, index) ==
    LET bounds == InstanceBounds(geom)
    IN  [geom |-> geom,
         index |-> index,
         center |-> VDiv(VSub(bounds.max, bounds.min), 2),
         bounds |-> bounds]

\* BuildNode::interior keeping the left child's bounds for its own.
BuildNodeInteriorLeftBounds(left, right) ==
    [bounds |-> left.bounds, kind |-> "Interior", left |-> left, right |-> right]

\* BuildNode::interior (bvh.rs:368-376).
BuildNodeInterior(left, right) ==
    [bounds |-> AABBUnion(left.bounds, right.bounds),
     kind |-> "Interior", left |-> left, right |-> right]

BuildNodeLeaf(bounds, geometry_offset, num_primitives) ==
    [bounds |-> bounds, kind |-> "Leaf",
     geometry_offset |-> geometry_offset, num_primitives |-> num_primitives]

\* A fold of AABB::union from AABB::default() over boxes[lo..hi].  Union is
\* associative, commutative and idempotent, so the fold is taken by halves
\* (the nesting stays logarithmic in the window's length).
RECURSIVE FoldUnion(_, _, _)
FoldUnion(boxes, lo, hi) ==
    IF lo > hi THEN AABBDefault
    ELSE IF lo = hi THEN AABBUnion(AABBDefault, boxes[lo])
    ELSE LET half == (lo + hi) \div 2
         IN  AABBUnion(FoldUnion(boxes, lo, half), FoldUnion(boxes, half + 1, hi))

\* geometry.iter().fold(AABB::default(), |b, g| b.union(g.geom.bounds().unwrap()))
FoldGeomBounds(geometry) ==
    FoldUnion([i \in 1..Len(geometry) |-> InstanceBounds(geometry[i].geom)], 1, Len(geometry))

\* geometry.iter().fold(AABB::default(), |b, g| b.point_union(g.center)):
\* growing by a point is the union with the box that is that point.
FoldCentroids(geometry) ==
    FoldUnion([i \in 1..Len(geometry) |-> point_union(AABBNew(geometry[i].center,
                                                               geometry[i].center),
                                                       geometry[i].center)],
              1, Len(geometry))

\* ((center - min) / (max - min) * buckets.len() as f32) as usize, then 12 -> 11.
\* centroids holds every center of the window, so 0 <= num <= den; when
\* den = 0 the quotient is 0/0 = NaN, which the cast turns into 0.
BucketIndex(g, split_axis, centroids) ==
    LET num == g.center[split_axis] - centroids.min[split_axis]
        den == centroids.max[split_axis] - centroids.min[split_axis]
        b == IF den = 0 THEN 0 ELSE (NumBuckets * num) \div den
    IN  IF b = NumBuckets THEN b - 1 ELSE b

SAHBucketDefault == [count |-> 0, bounds |-> AABBDefault]

\* The loop that fills the buckets: bucket b counts the items whose index
\* is b and holds the union of their bounds (buckets.get_mut(b) is None for
\* b >= 12, and such an item is counted nowhere).
FillBuckets(geometry, split_axis, centroids) ==
    [k \in 1..NumBuckets |->
        LET mine(g) == BucketIndex(g, split_axis, centroids) = k - 1
            items == SelectSeq(geometry, mine)
        IN  [count |-> Len(items),
             bounds |-> FoldUnion([i \in 1..Len(items) |-> items[i].bounds], 1, Len(items))]]

\* buckets.iter().take(..) / .skip(..) folded from SAHBucket::default(): the
\* buckets lo..hi (counted from 0).
RECURSIVE FoldBuckets(_, _, _, _)
FoldBuckets(a, buckets, lo, hi) ==
    IF lo > hi THEN a
    ELSE FoldBuckets([count |-> a.count + buckets[lo + 1].count,
                      bounds |-> AABBUnion(a.bounds, buckets[lo + 1].bounds)],
                     buckets, lo + 1, hi)

\* cost[i] = 0.125 + (left.count * left.area + right.count * right.area) / bounds.area,
\* as the f32 it is, in units of 1 / (8 * bounds.area): x / 0 is +inf, 0 / 0 is NaN.
SAHCost(buckets, i, bounds) ==
    LET left == FoldBuckets(SAHBucketDefault, buckets, 0, i)
        right == FoldBuckets(SAHBucketDefault, buckets, i + 1, NumBuckets - 1)
        x == left.count * surface_area(left.bounds) + right.count * surface_area(right.bounds)
        area == surface_area(bounds)
    IN  IF area = 0 THEN (IF x = 0 THEN NaN ELSE PInf)
        ELSE Fin(area + 8 * x)

\* cost.iter().enumerate().fold((0, INFINITY), ..): the first strict minimum.
RECURSIVE MinCost(_, _, _)
MinCost(acc, cost, i) ==
    IF i > Len(cost) THEN acc
    ELSE MinCost(IF FLt(cost[i], acc.min_cost)
                 THEN [min_bucket |-> i - 1, min_cost |-> cost[i]]
                 ELSE acc,
                 cost, i + 1)

\* min_cost < geometry.len() as f32, in the units of SAHCost.
CostBelowLeaf(min_cost, len, bounds) == FLt(min_cost, Fin(8 * len * surface_area(bounds)))

\* geometry.sort_unstable_by_key(func): the items whose key is false, then
\* those whose key is true (the order inside a side is the sort's to choose;
\* the model keeps it).
SortByKey(geometry, split_axis, centroids, min_bucket) ==
    LET func(g) == BucketIndex(g, split_axis, centroids) <= min_bucket
        notfunc(g) == ~func(g)
    IN  SelectSeq(geometry, notfunc) \o SelectSeq(geometry, func)

\* geometry.iter().position(func).unwrap_or(geometry.len() / 2)
SplitMid(sorted, split_axis, centroids, min_bucket) ==
    LET func(g) == BucketIndex(g, split_axis, centroids) <= min_bucket
        hits == {i \in 1..Len(sorted) : func(sorted[i])}
    IN  IF hits = {} THEN Len(sorted) \div 2
        ELSE (CHOOSE i \in hits : \A j \in hits : i <= j) - 1

\* assert!(mid != 0 && mid != geometry.len())
MidAssertion(mid, len) == mid # 0 /\ mid # len

\* build_leaf with index_to_geometry replaced by the window's indices
\* instead of extended by them.
build_leaf_overwrite(geometry, index_to_geometry, total_nodes, bounds) ==
    [ok |-> TRUE,
     node |-> BuildNodeLeaf(bounds, Len(index_to_geometry), Len(geometry)),
     index_to_geometry |-> [i \in 1..Len(geometry) |-> geometry[i].index],
     total_nodes |-> total_nodes]

\* BVH::build_leaf: the window's indices are appended to index_to_geometry.
build_leaf(geometry, index_to_geometry, total_nodes, bounds) ==
    [ok |-> TRUE,
     node |-> BuildNodeLeaf(bounds, Len(index_to_geometry), Len(geometry)),
     index_to_geometry |-> index_to_geometry \o [i \in 1..Len(geometry) |-> geometry[i].index],
     total_nodes |-> total_nodes]

BuildPanic(index_to_geometry, total_nodes) ==
    [ok |-> FALSE, node |-> BuildNodeLeaf(AABBDefault, 0, 0),
     index_to_geometry |-> index_to_geometry, total_nodes |-> total_nodes]

\* BVH::build on a window; index_to_geometry and total_nodes are the shared
\* &mut arguments, returned with the node.  ok is FALSE when the assertion on
\* mid failed (a panic).
RECURSIVE build(_, _, _, _)

\* BuildNode::interior(left, right) of the two finished recursive calls.
BuildJoin(left, right) ==
    IF ~right.ok THEN right
    ELSE [ok |-> TRUE,
          node |-> BuildNodeInterior(left.node, right.node),
          index_to_geometry |-> right.index_to_geometry,
          total_nodes |-> right.total_nodes]

\* The recursive call on geometry[mid..], after the one on geometry[..mid].
BuildRight(left, sorted, mid, threshold) ==
    IF ~left.ok THEN left
    ELSE BuildJoin(left, build(SubSeq(sorted, mid + 1, Len(sorted)),
                               left.index_to_geometry, left.total_nodes, threshold))

\* The assertion on mid and the recursive call on geometry[..mid].
BuildChildren(sorted, mid, index_to_geometry, total_nodes, threshold) ==
    IF ~MidAssertion(mid, Len(sorted))
    THEN BuildPanic(index_to_geometry, total_nodes)
    ELSE BuildRight(build(SubSeq(sorted, 1, mid), index_to_geometry, total_nodes, threshold),
                    sorted, mid, threshold)

\* The interior branch: the window sorted by func, and mid.
BuildSplit(sorted, split_axis, centroids, min_bucket, index_to_geometry, total_nodes, threshold) ==
    BuildChildren(sorted, SplitMid(sorted, split_axis, centroids, min_bucket),
                  index_to_geometry, total_nodes, threshold)

\* The choice between a leaf and a split by the SAH cost alone, the test
\* against the threshold left out.
BuildNodeForCostOnly(geometry, bounds, centroids, split_axis, best, index_to_geometry, total_nodes, threshold) ==
    IF Len(geometry) = 1
    THEN build_leaf(geometry, index_to_geometry, total_nodes, bounds)
    ELSE IF CostBelowLeaf(best.min_cost, Len(geometry), bounds)
    THEN BuildSplit(SortByKey(geometry, split_axis, centroids, best.min_bucket),
                    split_axis, centroids, best.min_bucket,
                    index_to_geometry, total_nodes, threshold)
    ELSE build_leaf(geometry, index_to_geometry, total_nodes, bounds)

\* The choice between a leaf and a split, from the window's bounds and centroids.
BuildNodeFor(geometry, bounds, centroids, split_axis, best, index_to_geometry, total_nodes, threshold) ==
    IF Len(geometry) = 1
    THEN build_leaf(geometry, index_to_geometry, total_nodes, bounds)
    ELSE IF Len(geometry) > threshold \/ CostBelowLeaf(best.min_cost, Len(geometry), bounds)
    THEN BuildSplit(SortByKey(geometry, split_axis, centroids, best.min_bucket),
                    split_axis, centroids, best.min_bucket,
                    index_to_geometry, total_nodes, threshold)
    ELSE build_leaf(geometry, index_to_geometry, total_nodes, bounds)

\* (min_bucket, min_cost) of the SAH over the buckets of the window.
BestSplit(geometry, bounds, centroids, split_axis) ==
    MinCost([min_bucket |-> 0, min_cost |-> PInf],
            [i \in 1..(NumBuckets - 1) |->
                SAHCost(FillBuckets(geometry, split_axis, centroids), i - 1, bounds)],
            1)

\* The window's bounds and centroids, the split axis and the best split.
BuildWindow(geometry, bounds, centroids, index_to_geometry, total_nodes, threshold) ==
    BuildNodeFor(geometry, bounds, centroids, max_extent(bounds),
                 BestSplit(geometry, bounds, centroids, max_extent(bounds)),
                 index_to_geometry, total_nodes, threshold)

\* BVH::build without its increment of total_nodes.
build_uncounted(geometry, index_to_geometry, total_nodes0, threshold) ==
    BuildWindow(geometry, FoldGeomBounds(geometry), FoldCentroids(geometry),
                index_to_geometry, total_nodes0, threshold)

build(geometry, index_to_geometry, total_nodes0, threshold) ==
    BuildWindow(geometry, FoldGeomBounds(geometry), FoldCentroids(geometry),
                index_to_geometry, total_nodes0 + 1, threshold)

(***************************************************************************)
(* Flattening (bvh.rs): the tree in pre-order, children by index from 0.   *)
(***************************************************************************)
FlatNodeInterior(bounds, left, right) ==
    [bounds |-> bounds, kind |-> "Interior", left |-> left, right |-> right,
     geometry_offset |-> 0, num_primitives |-> 0]

FlatNodeLeaf(bounds, geometry_offset, num_primitives) ==
    [bounds |-> bounds, kind |-> "Leaf", left |-> 0, right |-> 0,
     geometry_offset |-> geometry_offset, num_primitives |-> num_primitives]

\* BVH::flatten_impl: returns the tree after the push(es) and the node's offset.
RECURSIVE flatten_impl(_, _)

\* flatten_impl with an interior node's indices written at the push, before
\* its children are: the two slots after it.
flatten_impl_eager(node, tree) ==
    LET offset == Len(tree)
    IN  IF node.kind = "Interior"
        THEN LET pushed == Append(tree, FlatNodeInterior(node.bounds, offset + 1, offset + 2))
                 l == flatten_impl(node.left, pushed)
                 r == flatten_impl(node.right, l.tree)
             IN  [tree |-> r.tree, offset |-> offset]
        ELSE [tree |-> Append(tree, FlatNodeLeaf(node.bounds, node.geometry_offset,
                                                 node.num_primitives)),
              offset |-> offset]

flatten_impl(node, tree) ==
    LET offset == Len(tree)
    IN  IF node.kind = "Interior"
        THEN LET pushed == Append(tree, FlatNodeInterior(node.bounds, 0, 0))
                 l == flatten_impl(node.left, pushed)
                 r == flatten_impl(node.right, l.tree)
             IN  [tree |-> [r.tree EXCEPT ![offset + 1] =
                              FlatNodeInterior(@.bounds, l.offset, r.offset)],
                  offset |-> offset]
        ELSE [tree |-> Append(tree, FlatNodeLeaf(node.bounds, node.geometry_offset,
                                                 node.num_primitives)),
              offset |-> offset]

flatten(root) == flatten_impl(root, <<>>).tree

(***************************************************************************)
(* BVH::new and the nearest-hit query (bvh.rs).                            *)
(***************************************************************************)
\* BVH::new after its assertion: the GeometryInfos, the build, the flattening
\* and the geometry reordered by index_to_geometry.
BVHOfRoot(geometry, root) ==
    IF ~root.ok
    THEN [status |-> "panic_mid", geometry |-> <<>>, tree |-> <<>>,
          index_to_geometry |-> root.index_to_geometry,
          total_nodes |-> root.total_nodes]
    ELSE [status |-> "built",
          geometry |-> [k \in 1..Len(root.index_to_geometry) |->
                           geometry[root.index_to_geometry[k] + 1]],
          tree |-> flatten(root.node),
          index_to_geometry |-> root.index_to_geometry,
          total_nodes |-> root.total_nodes]

BVHNew(geometry) ==
    BVHOfRoot(geometry,
              build([i \in 1..Len(geometry) |-> GeometryInfo(geometry[i], i - 1)],
                    <<>>, 0, split_threshold))

\* The leaf's loop: the closest hit of geometry[offset .. offset + n), each
\* primitive asked with the upper bound shrunk to the closest t so far.
RECURSIVE LeafScan(_, _, _, _, _, _, _)
LeafScan(geometry, i, end, ray, t_min, closest, hit) ==
    IF i >= end THEN hit
    ELSE LET h == InstanceIntersection(geometry[i + 1], ray, t_min, closest)
         IN  IF h.some
             THEN LeafScan(geometry, i + 1, end, ray, t_min, h.t, h)
             ELSE LeafScan(geometry, i + 1, end, ray, t_min, closest, hit)

\* match (left, right): the closer of two hits, the right one on a tie.
Closer(left, right) ==
    IF left.some /\ right.some THEN (IF left.t < right.t THEN left ELSE right)
    ELSE IF ~right.some THEN left
    ELSE right

\* The inner fn intersect of BVH::intersection, on the node at index idx;
\* tree.get(idx) is None outside the tree.
RECURSIVE intersect(_, _, _, _, _, _)
intersect(idx, tree, geometry, ray, t_min, t_max) ==
    IF idx < 0 \/ idx >= Len(tree) THEN NoHit
    ELSE LET node == tree[idx + 1]
         IN  IF AABBHasIntersection(node.bounds, ray)
             THEN IF node.kind = "Interior"
                  THEN Closer(intersect(node.left, tree, geometry, ray, t_min, t_max),
                              intersect(node.right, tree, geometry, ray, t_min, t_max))
                  ELSE LeafScan(geometry, node.geometry_offset,
                                node.geometry_offset + node.num_primitives,
                                ray, t_min, t_max, NoHit)
             ELSE NoHit

\* BVH::intersection: from self.tree.first().
BVHIntersection(self, ray, t_min, t_max) ==
    intersect(0, self.tree, self.geometry, ray, t_min, t_max)

(***************************************************************************)
(* The inputs: scenes and rays.                                            *)
(***************************************************************************)
Sphere(center, radius) == [center |-> center, radius |-> radius]

\* The instances scenes are made of.  main.rs:120,147 places one shared
\* sphere at the origin by translation; main.rs:117,154 place spheres by
\* their own centre with Transform::default().
InstanceSet ==
    { InstanceReciver(Sphere(vec3(-4, 0, 0), 1), "lambertian", VZero),
      InstanceReciver(Sphere(vec3(4, 0, 0), 2), "metal", VZero),
      InstanceReciver(Sphere(vec3(0, 4, 0), 1), "dielectric", VZero),
      InstanceReciver(Sphere(VZero, 1), "lambertian", vec3(0, -4, 0)),
      InstanceReciver(Sphere(vec3(-12, 0, 0), 0), "metal", VZero) }

RECURSIVE SeqsUpTo(_, _)
SeqsUpTo(S, n) ==
    IF n = 0 THEN {<<>>}
    ELSE LET shorter == SeqsUpTo(S, n - 1)
         IN  shorter \cup {Append(q, x) : q \in {r \in shorter : Len(r) = n - 1}, x \in S}

\* Scenes above the split threshold: two instances in alternation.
BigScenes ==
    {[i \in 1..n |-> IF i % 2 = 1 THEN p ELSE q] :
        n \in (split_threshold + 1)..MaxBig, p \in InstanceSet, q \in InstanceSet}

Scenes == SeqsUpTo(InstanceSet, MaxInstances) \cup BigScenes

Directions ==
    {vec3(1, 0, 0), vec3(-1, 0, 0), vec3(0, 1, 0), vec3(0, -1, 0), vec3(0, 0, 1),
     vec3(0, 0, -1)}

Origins == {vec3(-8, 0, 0), vec3(0, -8, 0), vec3(0, 0, 0), vec3(-8, -4, 0), vec3(4, 0, -8)}

\* The intervals asked: the integrator's (main.rs:87) and two narrower ones.
Intervals == {<<T_MIN, T_MAX>>, <<T_MIN, 6>>, <<5, T_MAX>>}

(***************************************************************************)
(* Materials (material.rs) and the integrator's colours (main.rs).         *)
(* Attenuations are in tenths, the background in twentieths: a colour      *)
(* returned after k scatters is in units of 1 / (20 * 10^k), exactly.      *)
(***************************************************************************)
VMul(a, b) == vec3(a[1] * b[1], a[2] * b[2], a[3] * b[3])

\* main.rs:116 Lambertian(0.5, 0.5, 0.5); main.rs:161 Metal(0.7, 0.6, 0.5);
\* main.rs:157 Dielectric(1.5).
MaterialOf(name) ==
    CASE name = "lambertian" -> [kind |-> "Lambertian", albedo |-> vec3(5, 5, 5)]
      [] name = "metal" -> [kind |-> "Metal", albedo |-> vec3(7, 6, 5)]
      [] name = "dielectric" -> [kind |-> "Dielectric", albedo |-> vec3(9, 9, 9)]

MaterialNames == {"lambertian", "metal", "dielectric"}

NoScatter == [some |-> FALSE, attenuation |-> VZero]

\* Material::scatter, as far as the integrator reads it: whether a ray is
\* scattered and its attenuation.  outward is what the random sample decides
\* for Metal: scattered.direction.dot(hit.normal) > 0.0.
Scatter(material, outward) ==
    CASE material.kind = "Lambertian" -> [some |-> TRUE, attenuation |-> material.albedo]
      [] material.kind = "Metal" ->
            IF outward THEN [some |-> TRUE, attenuation |-> material.albedo] ELSE NoScatter
      [] material.kind = "Dielectric" -> [some |-> TRUE, attenuation |-> vec3(9, 9, 9)]

\* The background of a ray whose normalized direction has y = dy in {-1, 0, 1}:
\* t = 0.5 * (dy + 1); (1 - t) * (1, 1, 1) + t * (0.5, 0.7, 1.0), in twentieths.
Background(dy) ==
    LET t2 == dy + 1
    IN  VAdd(VScale(2 - t2, vec3(10, 10, 10)), VScale(t2, vec3(5, 7, 10)))

\* The depth test one bounce late.
DepthExhaustedLate(bounces, limit) == bounces > limit + 1

\* if *bounces > MAX_BOUNCES
DepthExhausted(bounces, limit) == bounces > limit

\* The inner call's colour returned as it is, the attenuation dropped.
ApplyAttenuationDropped(attenuation, inner) == inner

\* scatter.attenuation * color(scatter.scattered, ..): the pending
\* multiplication of a suspended call, applied to what the inner call returned.
ApplyAttenuation(attenuation, inner) == VMul(attenuation, inner)

(***************************************************************************)
(* The state.                                                              *)
(***************************************************************************)
VARIABLES
    geometry,           \* the Vec<Instance> handed to BVH::new
    bvh_status,         \* "unbuilt", "built", "panic_empty" (bvh.rs:42), "panic_mid" (bvh.rs:188)
    bvh,                \* the BVH built: geometry, tree (and the build's index_to_geometry, total_nodes)
    query,              \* the last call of BVH::intersection: ray, t_min, t_max
    result,             \* what that call returned
    max_bounces,        \* the depth limit: MAX_BOUNCES (main.rs:25), max_bounces (scene.rs:116)
    col_pc,             \* the integrator: "idle", "enter" (a call of color begins), "unwind", "done"
    bounces,            \* the counter color shares through &mut u32
    frames,             \* the attenuations of the suspended calls of color, innermost last
    ret,                \* the value the innermost finished call of color returned
    path,               \* what each call of color did, in order (history)
    renderer,           \* "none", "main" (trace of main.rs) or "scene" (Scene::trace)
    r_pc,               \* the render: "start", "sweep" (the parallel iterator runs), "joined"
    entropy,            \* how many generators were seeded from the entropy source
    units,              \* the work units of the sweep: a row (main), a rayon job (scene)
    buffer,             \* the output pixels in storage order, three bytes each
    collected,          \* Scene::trace: what the map returned, in item order
    global_ray_count,   \* the ray counter
    call,               \* a function applied on its own: its name and arguments
    value               \* what that application returned

bvh_vars == <<geometry, bvh_status, bvh, query, result>>
color_vars == <<max_bounces, col_pc, bounces, frames, ret, path>>
render_vars == <<renderer, r_pc, entropy, units, buffer, collected, global_ray_count>>
fn_vars == <<call, value>>
vars == <<bvh_vars, color_vars, render_vars, fn_vars>>

NoBVH == [geometry |-> <<>>, tree |-> <<>>, index_to_geometry |-> <<>>, total_nodes |-> 0]
NoQuery == [asked |-> FALSE]
NoCall == [fn |-> "none"]
NoValue == [returned |-> FALSE]

\* The BVH before any scene is loaded, the integrator before any call.
BVHIdle ==
    /\ geometry = <<>>
    /\ bvh_status = "unbuilt"
    /\ bvh = NoBVH
    /\ query = NoQuery
    /\ result = NoHit

\* No function is applied on its own.
FnIdle ==
    /\ call = NoCall
    /\ value = NoValue

ColorIdle ==
    /\ max_bounces = 0
    /\ col_pc = "idle"
    /\ bounces = 0
    /\ frames = <<>>
    /\ ret = VZero
    /\ path = <<>>

RenderIdle ==
    /\ renderer = "none"
    /\ r_pc = "start"
    /\ entropy = 0
    /\ units = <<>>
    /\ buffer = <<>>
    /\ collected = <<>>
    /\ global_ray_count = U32Of(0)

(***************************************************************************)
(* The BVH: construction and queries.                                      *)
(***************************************************************************)
Init ==
    /\ geometry \in Scenes
    /\ bvh_status = "unbuilt"
    /\ bvh = NoBVH
    /\ query = NoQuery
    /\ result = NoHit
    /\ ColorIdle
    /\ RenderIdle
    /\ FnIdle

\* BVH::new without its assertion.
NonEmptyAssertionOff(g) == TRUE

\* assert!(!geometry.is_empty())
NonEmptyAssertion(g) == g # <<>>

\* BVH::new(geometry): the assertion, then the build.
New ==
    /\ bvh_status = "unbuilt"
    /\ IF ~NonEmptyAssertion(geometry)
       THEN /\ bvh_status' = "panic_empty"
            /\ bvh' = NoBVH
       ELSE \E b \in {BVHNew(geometry)} :
                /\ bvh_status' = b.status
                /\ bvh' = [geometry |-> b.geometry, tree |-> b.tree,
                           index_to_geometry |-> b.index_to_geometry,
                           total_nodes |-> b.total_nodes]
    /\ UNCHANGED <<geometry, query, result, color_vars, render_vars, fn_vars>>

\* bvh.intersection(ray, t_min, t_max) on the built BVH, called by a caller
\* that holds no earlier result.
Intersection(origin, direction, t_min, t_max) ==
    /\ bvh_status = "built"
    /\ ~query.asked
    /\ query' = [asked |-> TRUE, ray |-> RayNew(origin, direction),
                 t_min |-> t_min, t_max |-> t_max]
    /\ result' = BVHIntersection(bvh, RayNew(origin, direction), t_min, t_max)
    /\ UNCHANGED <<geometry, bvh_status, bvh, color_vars, render_vars, fn_vars>>

\* The caller drops the Option<Hit> it was returned.
Return ==
    /\ query.asked
    /\ query' = NoQuery
    /\ result' = NoHit
    /\ UNCHANGED <<geometry, bvh_status, bvh, color_vars, render_vars, fn_vars>>

Next ==
    \/ New
    \/ Return
    \/ \E o \in Origins, d \in Directions, iv \in Intervals : Intersection(o, d, iv[1], iv[2])

Spec == Init /\ [][Next]_vars

(***************************************************************************)
(* The integrator: color (main.rs:76-106) as the calls of one sample.  The *)
(* scene and the random numbers are the environment: what the ray of each  *)
(* call hits, and what the material hit does, is chosen freely.            *)
(***************************************************************************)
InitColor ==
    /\ BVHIdle
    /\ RenderIdle
    /\ FnIdle
    /\ max_bounces \in 0..MaxBounces
    /\ col_pc = "idle"
    /\ bounces = 0
    /\ frames = <<>>
    /\ ret = VZero
    /\ path = <<>>

\* main.rs:202-203: let mut instance_ray_count = 1; color(ray, &mut instance_ray_count, ..)
TraceSample ==
    /\ col_pc = "idle"
    /\ col_pc' = "enter"
    /\ bounces' = 1
    /\ UNCHANGED <<max_bounces, frames, ret, path, bvh_vars, render_vars, fn_vars>>

\* main.rs:83-85: the depth limit is passed: Vec3::zero().
ColorMaxBounces ==
    /\ col_pc = "enter"
    /\ DepthExhausted(bounces, max_bounces)
    /\ ret' = VZero
    /\ col_pc' = "unwind"
    /\ path' = Append(path, [kind |-> "depth", value |-> VZero])
    /\ UNCHANGED <<max_bounces, bounces, frames, bvh_vars, render_vars, fn_vars>>

\* main.rs:101-105: the ray hits nothing: the background of its direction.
ColorMiss(dy) ==
    /\ col_pc = "enter"
    /\ ~DepthExhausted(bounces, max_bounces)
    /\ ret' = Background(dy)
    /\ col_pc' = "unwind"
    /\ path' = Append(path, [kind |-> "miss", value |-> Background(dy)])
    /\ UNCHANGED <<max_bounces, bounces, frames, bvh_vars, render_vars, fn_vars>>

\* main.rs:87-99: the ray hits an instance of material name.  When the
\* material scatters, the counter is incremented and color is called on the
\* scattered ray, this call suspended on its multiplication; when it does
\* not, Vec3::zero() is returned.
ColorHit(name, outward) ==
    /\ col_pc = "enter"
    /\ ~DepthExhausted(bounces, max_bounces)
    /\ LET scatter == Scatter(MaterialOf(name), outward)
       IN  IF scatter.some
           THEN /\ bounces' = bounces + 1
                /\ frames' = Append(frames, scatter.attenuation)
                /\ path' = Append(path, [kind |-> "scatter", value |-> scatter.attenuation])
                /\ UNCHANGED <<col_pc, ret>>
           ELSE /\ ret' = VZero
                /\ col_pc' = "unwind"
                /\ path' = Append(path, [kind |-> "absorb", value |-> VZero])
                /\ UNCHANGED <<bounces, frames>>
    /\ UNCHANGED <<max_bounces, bvh_vars, render_vars, fn_vars>>

\* main.rs:95: a suspended call resumes: scatter.attenuation * (the inner result).
ColorReturn ==
    /\ col_pc = "unwind"
    /\ frames # <<>>
    /\ ret' = ApplyAttenuation(frames[Len(frames)], ret)
    /\ frames' = SubSeq(frames, 1, Len(frames) - 1)
    /\ UNCHANGED <<max_bounces, col_pc, bounces, path, bvh_vars, render_vars, fn_vars>>

\* main.rs:203-204: the outermost call returns to trace.
ColorDone ==
    /\ col_pc = "unwind"
    /\ frames = <<>>
    /\ col_pc' = "done"
    /\ UNCHANGED <<max_bounces, bounces, frames, ret, path, bvh_vars, render_vars, fn_vars>>

NextColor ==
    \/ TraceSample
    \/ ColorMaxBounces
    \/ \E dy \in {-1, 0, 1} : ColorMiss(dy)
    \/ \E name \in MaterialNames, outward \in BOOLEAN : ColorHit(name, outward)
    \/ ColorReturn
    \/ ColorDone

SpecColor == InitColor /\ [][NextColor]_vars

\* color is sequential code on one thread: the step it is at is taken.
SpecColorFair == SpecColor /\ WF_vars(NextColor)

(***************************************************************************)
(* The parallel renderers: trace (main.rs:168-244), one work unit per row, *)
(* and Scene::trace (scene.rs:89-182), one work unit per rayon job of the  *)
(* pixel list.  What a pixel's samples compute is the environment's: the   *)
(* number of rays they trace is chosen freely, and a pixel's colour is     *)
(* stood for by the pixel's own coordinates.                               *)
(***************************************************************************)
\* DefaultRng::from_entropy(): a generator whose seed is the n-th the entropy
\* source gave, no value drawn from it yet.
FromEntropy(n) == [seed |-> n, drawn |-> 0]

\* Clone::clone of a generator: the same state.
CloneRng(rng) == rng

\* The generator after a pixel's samples drew from it.
Advance(rng) == [rng EXCEPT !.drawn = @ + 1]

\* A work unit: its items, the next one to do, its generator at its start
\* and now, and the ray_count of each item it has done (history).
Unit(items, started, rng) ==
    [items |-> items, todo |-> 1, started |-> started, rng_start |-> rng, rng |-> rng,
     counts |-> <<>>]

NoRng == [seed |-> -1, drawn |-> 0]

\* main.rs:183-187: buffer.par_chunks_mut(WIDTH * 3).rev().enumerate(): the
\* row numbered y is chunk Height - 1 - y of the buffer; its pixels i = 0..
MainRows == [y1 \in 1..Height |-> Unit([i1 \in 1..Width |-> <<i1 - 1, y1 - 1>>], FALSE, NoRng)]

\* Every row writing the first chunk.
MainPositionFirstChunk(i, y) == i

\* Where trace writes pixel i of row y: chunk Height - 1 - y, pixel i of it.
MainPosition(i, y) == (Height - 1 - y) * Width + i

\* scene.rs:93-94: iproduct!(0..width, 0..height): x outermost.
ScenePixels == [k \in 1..(Width * Height) |-> <<(k - 1) \div Height, (k - 1) % Height>>]

\* The sort key without the flip of y.
SortKeyUnflipped(p) == p[2] * Width + p[1]

\* scene.rs:142-147: the key the pixels are sorted by.
SortKey(p) == (Height - p[2]) * Width + p[1]

\* scene.rs:142-157: the pixels sorted by SortKey, each one's colour in turn.
SortPixels(pixels) ==
    LET n == Len(pixels)
        rank(k) == Cardinality({j \in 1..n : SortKey(pixels[j].xy) < SortKey(pixels[k].xy)
                                             \/ (SortKey(pixels[j].xy) = SortKey(pixels[k].xy)
                                                 /\ j < k)})
    IN  [r \in 1..n |-> LET k == CHOOSE k \in 1..n : rank(k) = r - 1 IN pixels[k].xy]

\* The buffer as bytes: row.chunks_mut(COLOR_CHANNELS) (main.rs:189) and the
\* flat_map of scene.rs:150-157 give each pixel three consecutive bytes, its
\* channels in order.
BufferBytes ==
    [b \in 1..(COLOR_CHANNELS * Len(buffer)) |->
        [pixel |-> buffer[(b - 1) \div COLOR_CHANNELS + 1], channel |-> (b - 1) % COLOR_CHANNELS]]

InitRender ==
    /\ BVHIdle
    /\ ColorIdle
    /\ FnIdle
    /\ renderer \in {"main", "scene"}
    /\ r_pc = "start"
    /\ entropy = 0
    /\ units = <<>>
    /\ buffer = <<>>
    /\ collected = <<>>
    /\ global_ray_count = U32Of(0)

\* main.rs:176-187: the zeroed buffer, the counter, the rows handed to rayon.
MainStart ==
    /\ renderer = "main"
    /\ r_pc = "start"
    /\ r_pc' = "sweep"
    /\ buffer' = [k \in 1..(Width * Height) |-> <<-1, -1>>]
    /\ units' = MainRows
    /\ global_ray_count' = U32Of(0)
    /\ UNCHANGED <<renderer, entropy, collected, bvh_vars, color_vars, fn_vars>>

\* main.rs:188: a row's closure begins: let mut rng = DefaultRng::from_entropy();
MainRowBegin(u) ==
    /\ renderer = "main"
    /\ r_pc = "sweep"
    /\ ~units[u].started
    /\ units' = [units EXCEPT ![u] = Unit(@.items, TRUE, FromEntropy(entropy))]
    /\ entropy' = entropy + 1
    /\ UNCHANGED <<renderer, r_pc, buffer, collected, global_ray_count, bvh_vars, color_vars, fn_vars>>

\* main.rs:191-226: the next pixel of a row: its samples, its three bytes
\* written, global_ray_count.fetch_add(ray_count, Relaxed).
MainPixel(u, ray_count) ==
    /\ renderer = "main"
    /\ r_pc = "sweep"
    /\ units[u].started
    /\ units[u].todo <= Len(units[u].items)
    /\ LET p == units[u].items[units[u].todo]
       IN  buffer' = [buffer EXCEPT ![MainPosition(p[1], p[2]) + 1] = p]
    /\ units' = [units EXCEPT ![u].todo = @ + 1, ![u].rng = Advance(@),
                              ![u].counts = Append(@, ray_count)]
    /\ global_ray_count' = AddU32(global_ray_count, U32Of(ray_count))
    /\ UNCHANGED <<renderer, r_pc, entropy, collected, bvh_vars, color_vars, fn_vars>>

\* scene.rs:93-99: the pixel list, and map_with(DefaultRng::from_entropy(), ..):
\* one generator is seeded, and rayon holds it with the whole list as one job.
SceneStart ==
    /\ renderer = "scene"
    /\ r_pc = "start"
    /\ r_pc' = "sweep"
    /\ units' = <<Unit(ScenePixels, FALSE, FromEntropy(entropy))>>
    /\ entropy' = entropy + 1
    /\ collected' = [k \in 1..(Width * Height) |-> [done |-> FALSE]]
    /\ UNCHANGED <<renderer, buffer, global_ray_count, bvh_vars, color_vars, fn_vars>>

\* rayon splits a job not yet begun in two (at the middle of its items, as
\* NextRender draws it); map_with clones its value for the half split off.
SceneSplit(u, at) ==
    /\ renderer = "scene"
    /\ r_pc = "sweep"
    /\ ~units[u].started
    /\ at \in 1..(Len(units[u].items) - 1)
    /\ LET job == units[u]
           first == Unit(SubSeq(job.items, 1, at), FALSE, job.rng)
           second == Unit(SubSeq(job.items, at + 1, Len(job.items)), FALSE, CloneRng(job.rng))
       IN  units' = SubSeq(units, 1, u - 1) \o <<first, second>> \o SubSeq(units, u + 1, Len(units))
    /\ UNCHANGED <<renderer, r_pc, entropy, buffer, collected, global_ray_count,
                   bvh_vars, color_vars, fn_vars>>

\* The items before job u in the pixel list.
ItemsBefore(u) ==
    LET lens == [k \in 1..Len(units) |-> Len(units[k].items)]
        sum[k \in 0..Len(units)] == IF k = 0 THEN 0 ELSE sum[k - 1] + lens[k]
    IN  sum[u - 1]

\* scene.rs:99-135: the next pixel of a job: the closure returns
\* (ray_count, ((x, y), pixel)).
ScenePixel(u, ray_count) ==
    /\ renderer = "scene"
    /\ r_pc = "sweep"
    /\ units[u].todo <= Len(units[u].items)
    /\ LET p == units[u].items[units[u].todo]
           k == ItemsBefore(u) + units[u].todo
       IN  collected' = [collected EXCEPT ![k] = [done |-> TRUE, ray_count |-> ray_count, xy |-> p]]
    /\ units' = [units EXCEPT ![u].todo = @ + 1, ![u].started = TRUE, ![u].rng = Advance(@),
                              ![u].counts = Append(@, ray_count)]
    /\ UNCHANGED <<renderer, r_pc, entropy, buffer, global_ray_count, bvh_vars, color_vars, fn_vars>>

AllUnitsDone == \A u \in 1..Len(units) : units[u].todo > Len(units[u].items)

\* main.rs:228-233: for_each returns when every row is done; the counter is loaded.
MainJoin ==
    /\ renderer = "main"
    /\ r_pc = "sweep"
    /\ \A u \in 1..Len(units) : units[u].started
    /\ AllUnitsDone
    /\ r_pc' = "joined"
    /\ UNCHANGED <<renderer, entropy, units, buffer, collected, global_ray_count,
                   bvh_vars, color_vars, fn_vars>>

RECURSIVE SumRayCounts(_, _)
SumRayCounts(c, k) ==
    IF k > Len(c) THEN U32Of(0) ELSE AddU32(U32Of(c[k].ray_count), SumRayCounts(c, k + 1))

\* scene.rs:136-159: unzip returns; the ray counts are summed (u32), the
\* pixels sorted and flattened into the image's buffer.
SceneJoin ==
    /\ renderer = "scene"
    /\ r_pc = "sweep"
    /\ AllUnitsDone
    /\ r_pc' = "joined"
    /\ global_ray_count' = SumRayCounts(collected, 1)
    /\ buffer' = SortPixels(collected)
    /\ UNCHANGED <<renderer, entropy, units, collected, bvh_vars, color_vars, fn_vars>>

\* The ray_count a pixel can return.  In trace it is at most
\* SAMPLES * (MAX_BOUNCES + 1) (main.rs:196-204); in Scene::trace samples and
\* max_bounces are settings and it is any u32 (scene.rs:101-118).
MainRayCounts == {1, MaxRays}
BigRayCount == (U16 \div 2 - 1) * U16 + (U16 - 1)
SceneRayCounts == {1, BigRayCount}

NextRender ==
    \/ MainStart
    \/ \E u \in 1..Len(units) : MainRowBegin(u)
    \/ \E u \in 1..Len(units), n \in MainRayCounts : MainPixel(u, n)
    \/ MainJoin
    \/ SceneStart
    \/ \E u \in 1..Len(units) : SceneSplit(u, Len(units[u].items) \div 2)
    \/ \E u \in 1..Len(units), n \in SceneRayCounts : ScenePixel(u, n)
    \/ SceneJoin

SpecRender == InitRender /\ [][NextRender]_vars

\* trace alone (main.rs:168-244): the rows of the buffer as rayon's jobs.
InitTrace == InitRender /\ renderer = "main"

NextTrace ==
    \/ MainStart
    \/ \E u \in 1..Len(units) : MainRowBegin(u)
    \/ \E u \in 1..Len(units), n \in MainRayCounts : MainPixel(u, n)
    \/ MainJoin

\* rayon runs every job it holds and for_each blocks until all are done: a
\* step of trace that can be taken is taken.
SpecTraceFair == InitTrace /\ [][NextTrace]_vars /\ WF_vars(NextTrace)

(***************************************************************************)
(* Functions applied on their own: AABB::max_extent, AABB::union, the       *)
(* GeometryInfo closure of BVH::new, Dielectric::scatter.                   *)
(***************************************************************************)
\* v - 2.0 * v.dot(n) * n
reflect(v, n) == VSub(v, VScale(2 * VDot(v, n), n))

\* A ratio of refraction indices as a fraction.
Ratio(num, den) == [num |-> num, den |-> den]

\* Dielectric::new(1.5) (main.rs:145,157).
ReflectionIndex == Ratio(3, 2)

\* refract(v, n, ni_over_nt) for a unit n: with dt = v.dot(n) / |v|,
\* discriminant = 1 - r^2 * (1 - dt^2) is positive exactly when
\* den^2 * |v|^2 > num^2 * (|v|^2 - v.dot(n)^2).  The refracted direction
\* has a square root in it and is kept as the term of its arguments.
refract(v, n, ni_over_nt) ==
    LET vv == VDot(v, v)
        vn == VDot(v, n)
    IN  IF ni_over_nt.den * ni_over_nt.den * vv > ni_over_nt.num * ni_over_nt.num * (vv - vn * vn)
        THEN [some |-> TRUE, direction |-> [refracted |-> v, around |-> n, ratio |-> ni_over_nt]]
        ELSE [some |-> FALSE]

\* rng.gen_bool(p): a uniform draw in [0, 1) falls below p; probabilities and
\* draws in steps of 1 / ProbSteps.  p = 1.0 is true for every draw.
gen_bool(p, draw) == draw < p

\* reflect_prob with the schlick value in both cases.
reflect_prob_schlick(refracted, schlick_value) == schlick_value

\* let reflect_prob = if refracted.is_some() { schlick(..) } else { 1.0 };
\* schlick's value is an input of the model.
reflect_prob(refracted, schlick_value) ==
    IF refracted.some THEN schlick_value ELSE ProbSteps

\* The choice of the scattered ray, refracted.unwrap() included.
DielectricRay(reflected, refracted, reflects) ==
    IF reflects THEN [kind |-> "scattered", direction |-> reflected, attenuation |-> vec3(9, 9, 9)]
    ELSE IF refracted.some
    THEN [kind |-> "scattered", direction |-> refracted.direction, attenuation |-> vec3(9, 9, 9)]
    ELSE [kind |-> "panic_unwrap"]

\* The refraction Dielectric::scatter asks for: the normal turned against
\* the ray and the ratio inverted when the ray enters.
DielectricRefracted(reflection_index, direction, normal) ==
    IF VDot(direction, normal) > 0
    THEN refract(direction, VScale(-1, normal), reflection_index)
    ELSE refract(direction, normal, Ratio(reflection_index.den, reflection_index.num))

\* Dielectric::scatter.
DielectricScatter(reflection_index, direction, normal, schlick_value, draw) ==
    DielectricRay(reflect(direction, normal),
                  DielectricRefracted(reflection_index, direction, normal),
                  gen_bool(reflect_prob(DielectricRefracted(reflection_index, direction, normal),
                                        schlick_value),
                           draw))

\* The boxes with min <= max on every axis, corners on the grid 0..MaxCoord.
Intervals1 == {iv \in (0..MaxCoord) \X (0..MaxCoord) : iv[1] <= iv[2]}
Boxes ==
    {AABBNew(vec3(x[1], y[1], z[1]), vec3(x[2], y[2], z[2])) :
        x \in Intervals1, y \in Intervals1, z \in Intervals1}

\* The rays and unit normals Dielectric::scatter is applied to.
ScatterDirections ==
    {vec3(1, 0, 0), vec3(-1, 0, 0), vec3(1, 1, 0), vec3(-1, -1, 0), vec3(2, 1, 0),
     vec3(1, 2, 0), vec3(0, 1, 1)}
ScatterNormals == {vec3(1, 0, 0), vec3(-1, 0, 0), vec3(0, 1, 0)}

FnCalls ==
    {[fn |-> "max_extent", self |-> b] : b \in Boxes}
    \cup {[fn |-> "union", self |-> a, other |-> b] : a \in Boxes, b \in Boxes}
    \cup {[fn |-> "GeometryInfo", geom |-> g, index |-> 0] : g \in InstanceSet}
    \cup {[fn |-> "scatter", direction |-> d, normal |-> n, schlick |-> sv, draw |-> dr] :
            d \in ScatterDirections, n \in ScatterNormals,
            sv \in 0..ProbSteps, dr \in 0..(ProbSteps - 1)}
    \cup {[fn |-> "has_intersection", self |-> g, ray |-> RayNew(o, d),
           t_min |-> iv[1], t_max |-> iv[2]] :
            g \in InstanceSet, o \in Origins, d \in Directions, iv \in Intervals}

InitFn ==
    /\ BVHIdle
    /\ ColorIdle
    /\ RenderIdle
    /\ call \in FnCalls
    /\ value = NoValue

Returned(out) == [returned |-> TRUE, out |-> out]

ApplyMaxExtent ==
    /\ call.fn = "max_extent"
    /\ ~value.returned
    /\ value' = Returned(max_extent(call.self))
    /\ UNCHANGED <<call, bvh_vars, color_vars, render_vars>>

ApplyUnion ==
    /\ call.fn = "union"
    /\ ~value.returned
    /\ value' = Returned(AABBUnion(call.self, call.other))
    /\ UNCHANGED <<call, bvh_vars, color_vars, render_vars>>

ApplyGeometryInfo ==
    /\ call.fn = "GeometryInfo"
    /\ ~value.returned
    /\ value' = Returned(GeometryInfo(call.geom, call.index))
    /\ UNCHANGED <<call, bvh_vars, color_vars, render_vars>>

ApplyScatter ==
    /\ call.fn = "scatter"
    /\ ~value.returned
    /\ value' = Returned(DielectricScatter(ReflectionIndex, call.direction, call.normal,
                                           call.schlick, call.draw))
    /\ UNCHANGED <<call, bvh_vars, color_vars, render_vars>>

\* The two queries of Intersect on one instance, ray and interval.
ApplyHasIntersection ==
    /\ call.fn = "has_intersection"
    /\ ~value.returned
    /\ value' = Returned([has |-> InstanceHasIntersection(call.self, call.ray),
                          hit |-> InstanceIntersection(call.self, call.ray,
                                                       call.t_min, call.t_max)])
    /\ UNCHANGED <<call, bvh_vars, color_vars, render_vars>>

NextFn ==
    \/ ApplyMaxExtent
    \/ ApplyUnion
    \/ ApplyGeometryInfo
    \/ ApplyScatter
    \/ ApplyHasIntersection

SpecFn == InitFn /\ [][NextFn]_vars

(***************************************************************************)
(* Properties.                                                             *)
(***************************************************************************)
\* The t of every instance of the scene, in its given order, that the ray
\* hits inside (t_min, t_max): what a linear scan of the scene finds.
LinearScanTs(g, ray, t_min, t_max) ==
    {InstanceIntersection(g[i], ray, t_min, t_max).t :
        i \in {j \in 1..Len(g) : InstanceIntersection(g[j], ray, t_min, t_max).some}}

\* C1: BVH::intersection returns a hit exactly when a linear scan of all the
\* instances finds one in (t_min, t_max), and its t is the least the scan finds.
C1_BVHMatchesLinearScan ==
    query.asked =>
        LET ts == LinearScanTs(geometry, query.ray, query.t_min, query.t_max)
        IN  /\ result.some <=> ts # {}
            /\ result.some => (result.t \in ts /\ \A t \in ts : result.t <= t)

\* C2: after BVH::new, index_to_geometry is a permutation of 0..N-1 and the
\* reordered geometry holds each original instance exactly once, at the place
\* the permutation gives it.
C2_PermutationIsBijection ==
    bvh_status = "built" =>
        LET n == Len(geometry)
            p == bvh.index_to_geometry
        IN  /\ Len(p) = n
            /\ Len(bvh.geometry) = n
            /\ \A j \in 0..(n - 1) : Cardinality({k \in 1..Len(p) : p[k] = j}) = 1
            /\ \A k \in 1..Len(p) : p[k] \in 0..(n - 1) /\ bvh.geometry[k] = geometry[p[k] + 1]

\* C2's case: a tree of several leaves whose permutation moves an instance.
C2_Witness ==
    /\ bvh_status = "built"
    /\ Cardinality({i \in 1..Len(bvh.tree) : bvh.tree[i].kind = "Leaf"}) >= 2
    /\ \E k \in 1..Len(bvh.index_to_geometry) : bvh.index_to_geometry[k] # k - 1

\* The interior nodes (indices from 0) that name node j as a child.
ParentsOf(tree, j) ==
    {i \in 0..(Len(tree) - 1) :
        tree[i + 1].kind = "Interior" /\ (tree[i + 1].left = j \/ tree[i + 1].right = j)}

\* C3: in the flattened tree node 0 is the root (the child of no node), every
\* interior node i has its left child at i + 1 and its right child at a later,
\* valid index, and every other node is the child of exactly one node: the
\* array is a tree.
C3_FlatTreeShape ==
    bvh_status = "built" =>
        LET tree == bvh.tree
            n == Len(tree)
        IN  /\ n >= 1
            /\ ParentsOf(tree, 0) = {}
            /\ \A i \in 0..(n - 1) :
                  tree[i + 1].kind = "Interior" =>
                      /\ tree[i + 1].left = i + 1
                      /\ tree[i + 1].right > tree[i + 1].left
                      /\ tree[i + 1].right < n
            /\ \A j \in 1..(n - 1) : Cardinality(ParentsOf(tree, j)) = 1

\* C3's case: an interior node whose left subtree is itself an interior node,
\* so that its right child is not the slot after the left one.
C3_Witness ==
    /\ bvh_status = "built"
    /\ \E i \in 1..Len(bvh.tree) :
          /\ bvh.tree[i].kind = "Interior"
          /\ bvh.tree[bvh.tree[i].left + 1].kind = "Interior"
          /\ bvh.tree[i].right > bvh.tree[i].left + 1

\* C4: BVH::new on a non-empty scene completes: no partition, however it
\* falls, makes the build abort.
C4_BuildNeverAborts ==
    (bvh_status # "unbuilt" /\ geometry # <<>>) => bvh_status = "built"

\* C5: BVH::new fails on its precondition exactly when the instance list is
\* empty, and then returns no BVH.
C5_EmptyInputIsFatal ==
    bvh_status # "unbuilt" =>
        /\ bvh_status = "panic_empty" <=> geometry = <<>>
        /\ bvh_status = "panic_empty" => bvh = NoBVH

\* C5's case: BVH::new was called with the empty list.
C5_Witness == bvh_status = "panic_empty" /\ geometry = <<>>

\* C6: every hit BVH::intersection returns has t_min < t < t_max.
C6_HitInsideInterval ==
    (query.asked /\ result.some) => (query.t_min < result.t /\ result.t < query.t_max)

\* C6's case: a hit returned through an interior node under an interval that
\* shuts out another hit of the same ray.
C6_Witness ==
    /\ query.asked
    /\ result.some
    /\ bvh.tree[1].kind = "Interior"
    /\ LinearScanTs(geometry, query.ray, T_MIN, T_MAX)
         \ LinearScanTs(geometry, query.ray, query.t_min, query.t_max) # {}

RECURSIVE IterativeColor(_, _, _)
IterativeColor(steps, i, product) ==
    IF i > Len(steps) THEN product
    ELSE IF steps[i].kind = "scatter"
    THEN IterativeColor(steps, i + 1, VMul(product, steps[i].value))
    ELSE VMul(product, steps[i].value)

Scatters(steps) == {i \in 1..Len(steps) : steps[i].kind = "scatter"}

\* C8: what the recursive color returns is what the iterative loop computes:
\* the product of the attenuations of the path's scatters times the terminal
\* value, the background on a miss and black on absorption or at the depth
\* limit; and each scatter adds exactly one to the counter.
C8_RecursiveEqualsIterative ==
    /\ col_pc # "idle" => bounces = 1 + Cardinality(Scatters(path))
    /\ col_pc = "done" =>
          /\ ret = IterativeColor(path, 1, vec3(1, 1, 1))
          /\ Scatters(path) = 1..(Len(path) - 1)
          /\ path[Len(path)].kind \in {"miss", "absorb", "depth"}
          /\ path[Len(path)].kind \in {"absorb", "depth"} => path[Len(path)].value = VZero
          /\ path[Len(path)].kind = "miss" => path[Len(path)].value \in {Background(dy) : dy \in {-1, 0, 1}}

\* C8's case: a path of two scatters of different attenuation that ends on a miss.
C8_Witness ==
    /\ col_pc = "done"
    /\ Len(path) = 3
    /\ path[1].value # path[2].value
    /\ path[3].kind = "miss"

\* C9: a hit is returned in world space: its point is the point of the ray
\* that was passed in at the hit's t, and it carries a material.
C9_HitPointInWorldSpace ==
    (query.asked /\ result.some) =>
        /\ result.point = point_at_parameter(query.ray, result.t)
        /\ result.material \in MaterialNames

\* C10: no two work units of a render begin from the same generator state.
C10_UnitsSeededIndependently ==
    \A u, v \in 1..Len(units) :
        (u # v /\ units[u].started /\ units[v].started) => units[u].rng_start # units[v].rng_start

\* The ray_count of every pixel done so far, unit after unit.
RECURSIVE PixelRayCounts(_)
PixelRayCounts(k) ==
    IF k > Len(units) THEN <<>> ELSE units[k].counts \o PixelRayCounts(k + 1)

\* The sum of ray counts as a number: 16-bit halves with the upper one unbounded.
RECURSIVE ExactSum(_, _)
ExactSum(counts, k) ==
    IF k > Len(counts) THEN [hi |-> 0, lo |-> 0]
    ELSE LET rest == ExactSum(counts, k + 1)
             lo == rest.lo + (counts[k] % U16)
         IN  [hi |-> rest.hi + (counts[k] \div U16) + (lo \div U16), lo |-> lo % U16]

\* C11: once the sweep has joined, the ray counter holds the sum of the ray
\* counts of all the pixels, whatever the interleaving and the counter's
\* width, and the pixels stored are what they are for every value of it.
C11_RayCounterIsSum ==
    r_pc = "joined" =>
        /\ Len(PixelRayCounts(1)) = Width * Height
        /\ global_ray_count = ExactSum(PixelRayCounts(1), 1)
        /\ \A k \in 1..Len(buffer) :
              buffer[k] = <<(k - 1) % Width, Height - 1 - ((k - 1) \div Width)>>

\* C12: the colour of pixel (x, y), y counted upward from the bottom row, is
\* stored at bytes 3 * ((H - 1 - y) * W + x) .. + 2 of the buffer: row-major,
\* top row first; distinct pixels have distinct places and the buffer has
\* W * H * 3 bytes.
C12_PixelLayout ==
    r_pc = "joined" =>
        /\ Len(BufferBytes) = Width * Height * 3
        /\ \A x \in 0..(Width - 1), y \in 0..(Height - 1), c \in 0..2 :
              BufferBytes[3 * ((Height - 1 - y) * Width + x) + c + 1]
                  = [pixel |-> <<x, y>>, channel |-> c]
        /\ \A b1, b2 \in 1..Len(BufferBytes) :
              BufferBytes[b1] = BufferBytes[b2] => b1 = b2

\* C12's case: Scene::trace has sorted pixels that several jobs returned, in
\* an order that is not the storage order.
C12_Witness ==
    /\ r_pc = "joined"
    /\ renderer = "scene"
    /\ Len(units) >= 2
    /\ \E k \in 1..Len(collected) : collected[k].xy # buffer[k]

\* C13: when BVH::new completes, the node counter the build incremented once
\* per call of BVH::build equals the length of the flattened tree.
C13_NodeCountIsTreeLength ==
    bvh_status = "built" => bvh.total_nodes = Len(bvh.tree)

\* C13's case: a build of several calls, interior nodes and leaves.
C13_Witness ==
    /\ bvh_status = "built"
    /\ bvh.total_nodes >= 5
    /\ \E i \in 1..Len(bvh.tree) : bvh.tree[i].kind = "Interior"

\* The extent of a box along an axis, and the largest of the three.
Extent(box, axis) == box.max[axis] - box.min[axis]
LargestExtent(box) == Max2(Extent(box, AxisX), Max2(Extent(box, AxisY), Extent(box, AxisZ)))

\* C14: max_extent returns X when the X extent is the largest (ties
\* included), otherwise Y when the Y extent is the largest, otherwise Z.
C14_MaxExtentTieBreak ==
    (call.fn = "max_extent" /\ value.returned) =>
        value.out = IF Extent(call.self, AxisX) = LargestExtent(call.self) THEN AxisX
                    ELSE IF Extent(call.self, AxisY) = LargestExtent(call.self) THEN AxisY
                    ELSE AxisZ

\* The grid points inside a box.
PointsOf(box) ==
    {p \in (0..MaxCoord) \X (0..MaxCoord) \X (0..MaxCoord) :
        \A axis \in {AxisX, AxisY, AxisZ} : box.min[axis] <= p[axis] /\ p[axis] <= box.max[axis]}

\* C15: for boxes a, b with min <= max, union(a, b) contains every point of a
\* and every point of b, and union(a, b) = union(b, a).
C15_UnionContainsAndCommutes ==
    (call.fn = "union" /\ value.returned) =>
        /\ PointsOf(call.self) \cup PointsOf(call.other) \subseteq PointsOf(value.out)
        /\ \A axis \in {AxisX, AxisY, AxisZ} :
              /\ value.out.min[axis] <= Min2(call.self.min[axis], call.other.min[axis])
              /\ value.out.max[axis] >= Max2(call.self.max[axis], call.other.max[axis])
        /\ value.out = AABBUnion(call.other, call.self)

\* C15's case: the union of two boxes neither of which contains the other.
C15_Witness ==
    /\ call.fn = "union"
    /\ value.returned
    /\ value.out # call.self
    /\ value.out # call.other

\* C16: when refract yields nothing, Dielectric::scatter returns the ray of
\* the reflected direction, whatever the draw: the absent refraction is
\* never unwrapped.
C16_TotalInternalReflection ==
    (/\ call.fn = "scatter"
     /\ value.returned
     /\ ~DielectricRefracted(ReflectionIndex, call.direction, call.normal).some)
        => /\ value.out.kind = "scattered"
           /\ value.out.direction = reflect(call.direction, call.normal)

\* C16's case: no refraction, and a draw that the schlick value would have
\* sent to the refracted branch.
C16_Witness ==
    /\ call.fn = "scatter"
    /\ value.returned
    /\ ~DielectricRefracted(ReflectionIndex, call.direction, call.normal).some
    /\ ~gen_bool(call.schlick, call.draw)
    /\ value.out.kind = "scattered"

\* The exact hull of the bounds of a non-empty run of instances: on every
\* axis the least lower and the greatest upper corner.
HullOf(instances) ==
    LET boxes == {InstanceBounds(instances[i]) : i \in 1..Len(instances)}
        lo(axis) == CHOOSE m \in {b.min[axis] : b \in boxes} :
                        \A b \in boxes : m <= b.min[axis]
        hi(axis) == CHOOSE m \in {b.max[axis] : b \in boxes} :
                        \A b \in boxes : m >= b.max[axis]
    IN  AABBNew(vec3(lo(AxisX), lo(AxisY), lo(AxisZ)), vec3(hi(AxisX), hi(AxisY), hi(AxisZ)))

\* C18: the bounds BVH::build stores in a leaf is exactly the union of the
\* bounds of the leaf's items, the smallest box that contains them.
C18_LeafBoundsAreExactUnion ==
    bvh_status = "built" =>
        \A i \in 1..Len(bvh.tree) :
            bvh.tree[i].kind = "Leaf" =>
                bvh.tree[i].bounds
                    = HullOf(SubSeq(bvh.geometry, bvh.tree[i].geometry_offset + 1,
                                    bvh.tree[i].geometry_offset + bvh.tree[i].num_primitives))

\* C19: the center GeometryInfo records for an instance is the midpoint of
\* the instance's bounds, (min + max) / 2 on every axis.
C19_CentroidIsMidpoint ==
    (call.fn = "GeometryInfo" /\ value.returned) =>
        /\ value.out.bounds = InstanceBounds(call.geom)
        /\ \A axis \in {AxisX, AxisY, AxisZ} :
              2 * value.out.center[axis] = value.out.bounds.min[axis] + value.out.bounds.max[axis]

\* The denominator of the bucket index in the first call of BVH::build:
\* centroids.max - centroids.min on the split axis of the whole scene.
RootBucketDenominator ==
    LET infos == [i \in 1..Len(geometry) |-> GeometryInfo(geometry[i], i - 1)]
        split_axis == max_extent(FoldGeomBounds(infos))
    IN  FoldCentroids(infos).max[split_axis] - FoldCentroids(infos).min[split_axis]

\* The centers of the whole scene have one coordinate on its split axis.
RootCentersCoincide ==
    LET infos == [i \in 1..Len(geometry) |-> GeometryInfo(geometry[i], i - 1)]
        split_axis == max_extent(FoldGeomBounds(infos))
    IN  \A i, j \in 1..Len(infos) : infos[i].center[split_axis] = infos[j].center[split_axis]

\* C20: when the centers of a window coincide on the split axis, BVH::build
\* divides by no zero to find the buckets, and the window becomes a leaf or
\* is split by the fallback: the build completes.
C20_DegenerateBucketingGuarded ==
    (bvh_status # "unbuilt" /\ Len(geometry) >= 2 /\ RootCentersCoincide) =>
        /\ RootBucketDenominator # 0
        /\ bvh_status = "built"

\* A pixel of the buffer that no unit has written.
Unwritten == <<-1, -1>>

\* The pixels of the work units, each with the unit that holds it.
UnitPixels ==
    {ui \in (1..Len(units)) \X (1..(Width * Height)) : ui[2] <= Len(units[ui[1]].items)}

\* During the sweep every pixel of the image belongs to exactly one unit.
UnitsPartitionPixels ==
    r_pc = "sweep" =>
        /\ \A a, b \in UnitPixels :
              units[a[1]].items[a[2]] = units[b[1]].items[b[2]] => a = b
        /\ {units[a[1]].items[a[2]] : a \in UnitPixels} = (0..(Width - 1)) \X (0..(Height - 1))

\* A step of a row's closure writes one pixel, which no step wrote before,
\* and no step changes a pixel already written.
WritesOnce ==
    /\ \A k \in 1..Len(buffer) :
          buffer[k] # Unwritten => (Len(buffer') = Len(buffer) /\ buffer'[k] = buffer[k])
    /\ \A u \in 1..Len(units) :
          (renderer = "main" /\ Len(units') = Len(units) /\ units'[u].todo = units[u].todo + 1) =>
              LET p == units[u].items[units[u].todo]
                  at == MainPosition(p[1], p[2]) + 1
              IN  /\ buffer[at] = Unwritten
                  /\ buffer'[at] # Unwritten
                  /\ \A k \in 1..Len(buffer) : k # at => buffer'[k] = buffer[k]

\* C17: under any scheduling that runs the work units, the sweep joins; every
\* pixel of the buffer is then written, each pixel belongs to one unit only,
\* and each was written once, no step writing where another wrote.
C17_RenderCompletes ==
    /\ <>(r_pc = "joined")
    /\ [](r_pc = "joined" => (/\ Len(buffer) = Width * Height
                              /\ \A k \in 1..Len(buffer) : buffer[k] # Unwritten))
    /\ []UnitsPartitionPixels
    /\ [][WritesOnce]_vars

\* C17's case: trace has joined after its rows ran out of order, the row
\* numbered 0 begun after another.
C17_Witness ==
    /\ r_pc = "joined"
    /\ renderer = "main"
    /\ units[1].rng_start.seed > 0
    /\ \A k \in 1..Len(buffer) : buffer[k] # Unwritten

\* The number of primitives in the window node i of the flattened tree was
\* built from: those of its leaves.
RECURSIVE WindowSize(_, _)
WindowSize(tree, i) ==
    IF tree[i + 1].kind = "Leaf" THEN tree[i + 1].num_primitives
    ELSE WindowSize(tree, tree[i + 1].left) + WindowSize(tree, tree[i + 1].right)

\* C21: in a completed build every leaf holds between 1 and split_threshold
\* primitives, a window of one item is a leaf, a window of more than
\* split_threshold items is split, both sub-windows of a split are non-empty,
\* and the root's window is the whole scene.
C21_LeafSizes ==
    bvh_status = "built" =>
        LET tree == bvh.tree
        IN  /\ WindowSize(tree, 0) = Len(geometry)
            /\ \A i \in 0..(Len(tree) - 1) :
                  /\ WindowSize(tree, i) >= 1
                  /\ tree[i + 1].kind = "Leaf" =>
                        tree[i + 1].num_primitives \in 1..split_threshold
                  /\ WindowSize(tree, i) = 1 => tree[i + 1].kind = "Leaf"
                  /\ WindowSize(tree, i) > split_threshold => tree[i + 1].kind = "Interior"
                  /\ tree[i + 1].kind = "Interior" =>
                        /\ WindowSize(tree, tree[i + 1].left) >= 1
                        /\ WindowSize(tree, tree[i + 1].right) >= 1

\* C21's case: a scene above the threshold, split at the root although the
\* SAH did not ask for it, with a leaf of several primitives below.
C21_Witness ==
    /\ bvh_status = "built"
    /\ Len(geometry) > split_threshold
    /\ bvh.tree[1].kind = "Interior"
    /\ \E i \in 1..Len(bvh.tree) :
          bvh.tree[i].kind = "Leaf" /\ bvh.tree[i].num_primitives > 1

\* The positions in the reordered geometry of the primitives stored in the
\* leaves of the subtree of node i.
RECURSIVE SubtreePrimitives(_, _)
SubtreePrimitives(tree, i) ==
    IF tree[i + 1].kind = "Leaf"
    THEN (tree[i + 1].geometry_offset + 1)..(tree[i + 1].geometry_offset + tree[i + 1].num_primitives)
    ELSE SubtreePrimitives(tree, tree[i + 1].left) \cup SubtreePrimitives(tree, tree[i + 1].right)

\* Box inner lies inside box outer on every axis.
BoxInside(inner, outer) ==
    \A axis \in {AxisX, AxisY, AxisZ} :
        outer.min[axis] <= inner.min[axis] /\ inner.max[axis] <= outer.max[axis]

\* C22: in a built tree the bounds of every interior node is the smallest box
\* around its two children's bounds, and the box of every node contains the
\* bounds (as Intersect::bounds reports them) of every primitive stored in
\* the leaves of its subtree.
C22_InteriorBoundsAreUnion ==
    bvh_status = "built" =>
        LET tree == bvh.tree
        IN  \A i \in 0..(Len(tree) - 1) :
                /\ tree[i + 1].kind = "Interior" =>
                      LET l == tree[tree[i + 1].left + 1].bounds
                          r == tree[tree[i + 1].right + 1].bounds
                      IN  \A axis \in {AxisX, AxisY, AxisZ} :
                              /\ tree[i + 1].bounds.min[axis] = Min2(l.min[axis], r.min[axis])
                              /\ tree[i + 1].bounds.max[axis] = Max2(l.max[axis], r.max[axis])
                /\ \A k \in SubtreePrimitives(tree, i) :
                      BoxInside(InstanceBounds(bvh.geometry[k]), tree[i + 1].bounds)

\* C22's case: an interior node whose box is larger than each child's, over
\* leaves that hold primitives.
C22_Witness ==
    /\ bvh_status = "built"
    /\ \E i \in 1..Len(bvh.tree) :
          /\ bvh.tree[i].kind = "Interior"
          /\ bvh.tree[i].bounds # bvh.tree[bvh.tree[i].left + 1].bounds
          /\ bvh.tree[i].bounds # bvh.tree[bvh.tree[i].right + 1].bounds
          /\ SubtreePrimitives(bvh.tree, i - 1) # {}

\* C23: has_intersection(ray, t_min, t_max) of an instance is true exactly
\* when intersection(ray, t_min, t_max) of the same instance returns a hit.
C23_HasIntersectionAgrees ==
    (call.fn = "has_intersection" /\ value.returned) =>
        (value.out.has <=> value.out.hit.some)

\* The recursive calls of color a path has made: its scatterings.
RecursiveCalls == Len(SelectSeq(path, LAMBDA e : e.kind = "scatter"))

\* A step of color leaves the bounce counter as it is or adds one to it, and
\* a step that makes the recursive call adds one.
CounterOnlyIncrements ==
    /\ bounces' \in {bounces, bounces + 1}
    /\ Len(frames') > Len(frames) => bounces' = bounces + 1

\* C24: every call of color from trace returns; the bounce counter goes up by
\* one on each recursive call and never goes down; a path makes at most
\* max_bounces recursive calls, and ends on a miss, an absorption or the
\* depth limit.
C24_ColorTerminates ==
    /\ <>(col_pc = "done")
    /\ [][CounterOnlyIncrements]_vars
    /\ [](RecursiveCalls <= max_bounces /\ Len(frames) <= max_bounces)
    /\ [](col_pc = "done" =>
            /\ path # <<>>
            /\ path[Len(path)].kind \in {"miss", "absorb", "depth"})

\* C24's case: a path that scattered at every call until the depth limit
\* stopped it, and has returned.
C24_Witness ==
    /\ col_pc = "done"
    /\ max_bounces >= 2
    /\ RecursiveCalls = max_bounces
    /\ path[Len(path)].kind = "depth"

====
